---- MODULE Spec2Model ----
(***************************************************************************)
(* Hospital operations pipeline: raw ingestion and cleaning                *)
(* (src/src/hospital_ops/data_loader.py), warehouse build                  *)
(* (src/src/hospital_ops/build_gold.py), model training                    *)
(* (src/src/hospital_ops/train_admission_model.py) and the prediction and  *)
(* metrics service (src/app/main.py).                                      *)
(*                                                                         *)
(* Text is a sequence of one-character strings, so that strip, lower,      *)
(* startswith, split and the numeric and datetime parsers are computed.    *)
(* A cell of a data frame is NULL (NaN / NaT / None), Num(n), Str(chars)   *)
(* or a datetime record.                                                   *)
(***************************************************************************)
EXTENDS Integers, Sequences, FiniteSets, TLC

VARIABLES
  raw,        \* the raw CSV at RAW_DATA_PATH: NOFILE or [cols, rows]
  df,         \* the data frame main() of data_loader.py is working on
  pc,         \* position of main() of data_loader.py
  err,        \* the exception that ended a batch run, or NOERR
  processed,  \* the parquet snapshot at PROCESSED_DATA_PATH: NOFILE or [cols, rows]
  warehouse,  \* the tables of the DuckDB file at DB_PATH
  builds,     \* completed runs of main() of build_gold.py
  tieOrder,   \* how the engine orders rows whose sort keys are equal
  sqlFile,    \* METRICS_SQL_PATH: whether it exists, and its lines
  svc,        \* position of the service: import, startup, serving
  lineNo,     \* load_metrics_sql: the index of the line the loop is at
  blocks,     \* load_metrics_sql: blocks, a set of <<name, text>> pairs
  current_name,       \* load_metrics_sql: current_name, NULL for None
  current_sql_lines,  \* load_metrics_sql: current_sql_lines
  METRICS_QUERIES,    \* the module global, NULL until load_metrics_sql returned
  files,      \* the local paths that exist, among MODEL_PATH and DB_PATH
  env,        \* the environment: MODEL_URL and DB_URL, NULL when unset
  envReads,   \* the environment variables os.getenv was called on
  downloads,  \* the urlretrieve calls made, as <<url, path>>
  artifact,   \* the fitted pipeline the model file holds
  MODEL,      \* the module global MODEL, NULL for None
  request,    \* the last request the service received
  response    \* the last response of the service

ingestVars == <<raw, df, pc, err, processed>>
goldVars == <<warehouse, builds, tieOrder>>
loadVars == <<sqlFile, lineNo, blocks, current_name, current_sql_lines, METRICS_QUERIES>>
startupVars == <<files, env, envReads, downloads, artifact, MODEL>>
svcVars == <<svc, loadVars, startupVars, request, response>>
vars == <<ingestVars, goldVars, svcVars>>

----------------------------------------------------------------------------
(* Bounds of the model *)

\* most rows of a raw table
MaxRows == 2

\* most runs of the warehouse build
MaxBuilds == 2

\* most lines of the named-query file
MaxLines == 3

\* the grid of probabilities: a probability is a multiple of 1/ProbScale
ProbScale == 4

----------------------------------------------------------------------------
(* Cells and text *)

NULL == [t |-> "null"]
Num(n) == [t |-> "num", v |-> n]
Str(chars) == [t |-> "str", s |-> chars]
NOFILE == [t |-> "nofile"]
NOERR == [t |-> "noerr"]
NODF == [t |-> "nodf"]
NORESPONSE == [t |-> "noresponse"]
NOREQUEST == [endpoint |-> "none"]

\* a table of the warehouse: absent, or present with its rows in order
ABSENT == [exists |-> FALSE, rows |-> <<>>]
NOSQL == [exists |-> FALSE, lines |-> <<>>]
SqlText(lines) == [exists |-> TRUE, lines |-> lines]
Table(rows) == [exists |-> TRUE, rows |-> rows]

\* a DuckDB file with no tables
EmptyWarehouse ==
  [dim_department |-> ABSENT, dim_date |-> ABSENT, fact_encounter |-> ABSENT,
   gold_daily_volume |-> ABSENT, gold_department_waits |-> ABSENT]

IsNull(c) == c.t = "null"
IsNum(c) == c.t = "num"
IsStr(c) == c.t = "str"

Whitespace == {" ", "\t", "\n"}

Upper == <<"A","B","C","D","E","F","G","H","I","J","K","L","M",
           "N","O","P","Q","R","S","T","U","V","W","X","Y","Z">>
Lower == <<"a","b","c","d","e","f","g","h","i","j","k","l","m",
           "n","o","p","q","r","s","t","u","v","w","x","y","z">>

\* str.lower() on one character
LowerChar(c) ==
  IF \E i \in 1..26 : Upper[i] = c
  THEN Lower[CHOOSE i \in 1..26 : Upper[i] = c]
  ELSE c

\* str.lower()
lower(s) == [i \in 1..Len(s) |-> LowerChar(s[i])]

RECURSIVE lstrip(_)
lstrip(s) == IF s # <<>> /\ Head(s) \in Whitespace THEN lstrip(Tail(s)) ELSE s

RECURSIVE rstrip(_)
rstrip(s) ==
  IF s # <<>> /\ s[Len(s)] \in Whitespace THEN rstrip(SubSeq(s, 1, Len(s) - 1)) ELSE s

\* str.strip()
strip(s) == rstrip(lstrip(s))

\* str.startswith(prefix)
startswith(s, prefix) ==
  Len(s) >= Len(prefix) /\ SubSeq(s, 1, Len(prefix)) = prefix

DigitChars == <<"0","1","2","3","4","5","6","7","8","9">>
IsDigit(c) == \E i \in 1..10 : DigitChars[i] = c
DigitVal(c) == (CHOOSE i \in 1..10 : DigitChars[i] = c) - 1
AllDigits(s) == s # <<>> /\ \A i \in 1..Len(s) : IsDigit(s[i])

RECURSIVE DigitsVal(_)
DigitsVal(s) ==
  IF s = <<>> THEN 0 ELSE 10 * DigitsVal(SubSeq(s, 1, Len(s) - 1)) + DigitVal(s[Len(s)])

RECURSIVE NatToStr(_)
NatToStr(n) ==
  IF n < 10 THEN <<DigitChars[n + 1]>> ELSE NatToStr(n \div 10) \o <<DigitChars[(n % 10) + 1]>>

\* Series.astype(str) on one cell: a missing value becomes the text "nan"
astype_str(c) ==
  IF IsNull(c) THEN <<"n","a","n">>
  ELSE IF IsNum(c) THEN (IF c.v < 0 THEN <<"-">> \o NatToStr(-c.v) ELSE NatToStr(c.v))
  ELSE c.s

\* pd.to_numeric(errors="coerce") on one cell: integers in decimal, anything
\* else becomes NaN
to_numeric(c) ==
  IF IsNum(c) THEN c
  ELSE IF IsNull(c) THEN NULL
  ELSE LET s == strip(c.s) IN
       IF AllDigits(s) THEN Num(DigitsVal(s))
       ELSE IF s # <<>> /\ Head(s) = "-" /\ AllDigits(Tail(s)) THEN Num(-DigitsVal(Tail(s)))
       ELSE NULL

----------------------------------------------------------------------------
(* Data frames: [cols |-> set of column names, rows |-> sequence of          *)
(* functions from the column names to cells]                                *)

REQUIRED_COLUMNS ==
  << "Patient Id", "Patient Admission Date", "Patient Admission Time", "Merged",
     "Patient Gender", "Patient Age", "Patient Race", "Department Referral",
     "Patient Admission Flag", "Patient Satisfaction Score", "Patient Waittime" >>

RequiredSet == {REQUIRED_COLUMNS[i] : i \in 1..Len(REQUIRED_COLUMNS)}

\* the index of a frame's rows
Index(d) == 1..Len(d.rows)

\* df[c] = series: column c set, row by row, to the values of the series
WithColumn(d, c, series) ==
  [cols |-> d.cols \cup {c},
   rows |-> [i \in Index(d) |->
              [k \in d.cols \cup {c} |-> IF k = c THEN series[i] ELSE d.rows[i][k]]]]

\* df[mask]: the rows whose mask entry is true, in order
FilterRows(d, mask) ==
  LET F[i \in 0..Len(d.rows)] ==
        IF i = 0 THEN <<>>
        ELSE IF mask[i] THEN Append(F[i - 1], d.rows[i]) ELSE F[i - 1]
  IN [cols |-> d.cols, rows |-> F[Len(d.rows)]]

\* df.drop(columns=[c])
DropColumn(d, c) ==
  [cols |-> d.cols \ {c},
   rows |-> [i \in 1..Len(d.rows) |-> [k \in d.cols \ {c} |-> d.rows[i][k]]]]

\* the missing list validate_schema computes, in REQUIRED_COLUMNS order
MissingColumns(d) == SelectSeq(REQUIRED_COLUMNS, LAMBDA c : c \notin d.cols)

\* validate_schema with the last required column left out of the check
validate_schema_short_list(d) ==
  LET missing == SelectSeq(SubSeq(REQUIRED_COLUMNS, 1, Len(REQUIRED_COLUMNS) - 1),
                           LAMBDA c : c \notin d.cols)
  IN IF missing # <<>> THEN [t |-> "ValueError", missing |-> missing] ELSE NOERR

\* validate_schema: the exception it raises, or NOERR
validate_schema(d) ==
  IF MissingColumns(d) # <<>>
  THEN [t |-> "ValueError", missing |-> MissingColumns(d)]
  ELSE NOERR

rename_map ==
  [c \in RequiredSet |->
     CASE c = "Patient Id" -> "patient_id"
       [] c = "Patient Admission Date" -> "admission_date"
       [] c = "Patient Admission Time" -> "admission_time"
       [] c = "Merged" -> "merged_datetime"
       [] c = "Patient Gender" -> "gender"
       [] c = "Patient Age" -> "age"
       [] c = "Patient Race" -> "race"
       [] c = "Department Referral" -> "department"
       [] c = "Patient Admission Flag" -> "admitted_raw"
       [] c = "Patient Satisfaction Score" -> "satisfaction_score"
       [] c = "Patient Waittime" -> "wait_time_minutes"]

Renamed(c) == IF c \in RequiredSet THEN rename_map[c] ELSE c

\* df.rename(columns=rename_map): columns not in the map keep their names
standardise_columns(d) ==
  LET newcols == {Renamed(c) : c \in d.cols}
      old(k) == CHOOSE c \in d.cols : Renamed(c) = k
  IN [cols |-> newcols,
      rows |-> [i \in 1..Len(d.rows) |-> [k \in newcols |-> d.rows[i][old(k)]]]]

----------------------------------------------------------------------------
(* parse_datetimes *)

DaysInMonth(y, m) ==
  IF m = 2 THEN (IF (y % 4 = 0 /\ y % 100 # 0) \/ y % 400 = 0 THEN 29 ELSE 28)
  ELSE IF m \in {4, 6, 9, 11} THEN 30 ELSE 31

\* pd.to_datetime(errors="coerce") on one cell, for text of the one layout
\* "YYYY-MM-DD HH:MM"; a missing cell, a field out of its calendar range and
\* any other text become NaT instead of raising
to_datetime(c) ==
  IF ~IsStr(c) THEN NULL
  ELSE LET s == c.s IN
       IF /\ Len(s) = 16
          /\ s[5] = "-" /\ s[8] = "-" /\ s[11] = " " /\ s[14] = ":"
          /\ AllDigits(SubSeq(s, 1, 4)) /\ AllDigits(SubSeq(s, 6, 7))
          /\ AllDigits(SubSeq(s, 9, 10)) /\ AllDigits(SubSeq(s, 12, 13))
          /\ AllDigits(SubSeq(s, 15, 16))
       THEN LET y == DigitsVal(SubSeq(s, 1, 4))
                mo == DigitsVal(SubSeq(s, 6, 7))
                d == DigitsVal(SubSeq(s, 9, 10))
                h == DigitsVal(SubSeq(s, 12, 13))
                mi == DigitsVal(SubSeq(s, 15, 16))
            IN IF /\ y >= 1 /\ mo \in 1..12 /\ d >= 1 /\ d <= DaysInMonth(y, mo)
                  /\ h \in 0..23 /\ mi \in 0..59
               THEN [t |-> "dt", y |-> y, mo |-> mo, d |-> d, h |-> h, mi |-> mi]
               ELSE NULL
       ELSE NULL

\* combine_first with the operands the other way round
combine_first_swapped(a, b) == IF IsNull(b) THEN a ELSE b

\* Series.combine_first: the left value where it is present, else the right
combine_first(a, b) == IF IsNull(a) THEN b ELSE a

\* admission_date.astype(str) + " " + admission_time.astype(str)
dt_str(row) == Str(astype_str(row["admission_date"]) \o <<" ">> \o astype_str(row["admission_time"]))

MonthOffsets == <<0, 3, 2, 5, 0, 3, 5, 1, 4, 6, 2, 4>>

\* Series.dt.dayofweek, Monday = 0
dayofweek(dt) ==
  LET y == IF dt.mo < 3 THEN dt.y - 1 ELSE dt.y
      sunday0 == (y + (y \div 4) - (y \div 100) + (y \div 400) + MonthOffsets[dt.mo] + dt.d) % 7
  IN (sunday0 + 6) % 7

dt_date(dt) == IF IsNull(dt) THEN NULL ELSE [t |-> "date", y |-> dt.y, mo |-> dt.mo, d |-> dt.d]
dt_hour(dt) == IF IsNull(dt) THEN NULL ELSE Num(dt.h)
dt_dayofweek(dt) == IF IsNull(dt) THEN NULL ELSE Num(dayofweek(dt))
dt_month(dt) == IF IsNull(dt) THEN NULL ELSE Num(dt.mo)

DatetimeInputs == {"merged_datetime", "admission_date", "admission_time"}

\* the event_datetime of a row whose merged_datetime and arrival_datetime are
\* already parsed
event_datetime(row) == combine_first(row["merged_datetime"], row["arrival_datetime"])

parse_datetimes(d) ==
  LET d1 == WithColumn(d, "merged_datetime",
                       [i \in Index(d) |-> to_datetime(d.rows[i]["merged_datetime"])])
      d2 == WithColumn(d1, "arrival_datetime",
                       [i \in Index(d) |-> to_datetime(dt_str(d1.rows[i]))])
      d3 == WithColumn(d2, "event_datetime", [i \in Index(d) |-> event_datetime(d2.rows[i])])
      d4 == WithColumn(d3, "event_date",
                       [i \in Index(d) |-> dt_date(d3.rows[i]["event_datetime"])])
      d5 == WithColumn(d4, "event_hour",
                       [i \in Index(d) |-> dt_hour(d4.rows[i]["event_datetime"])])
      d6 == WithColumn(d5, "event_dayofweek",
                       [i \in Index(d) |-> dt_dayofweek(d5.rows[i]["event_datetime"])])
  IN WithColumn(d6, "event_month",
                [i \in Index(d) |-> dt_month(d6.rows[i]["event_datetime"])])

----------------------------------------------------------------------------
(* map_admission_flag and basic_cleaning *)

S_admission == <<"a","d","m","i","s","s","i","o","n">>
S_not_admission == <<"n","o","t"," ","a","d","m","i","s","s","i","o","n">>
S_true == <<"t","r","u","e">>
S_false == <<"f","a","l","s","e">>
S_yes == <<"y","e","s">>
S_no == <<"n","o">>

\* Series.map(mapping): a key that is not in the mapping gives NaN
mapping(s) ==
  CASE s = S_admission -> Num(1)
    [] s = S_not_admission -> Num(0)
    [] s = <<"1">> -> Num(1)
    [] s = <<"0">> -> Num(0)
    [] s = S_true -> Num(1)
    [] s = S_false -> Num(0)
    [] s = S_yes -> Num(1)
    [] s = S_no -> Num(0)
    [] OTHER -> NULL

map_admission_flag(d) ==
  WithColumn(d, "admitted",
             [i \in Index(d) |-> mapping(lower(strip(astype_str(d.rows[i]["admitted_raw"]))))])

\* DataFrame.drop_duplicates(): the first of each run of equal rows is kept
drop_duplicates(d) ==
  LET keep == {i \in 1..Len(d.rows) : \A j \in 1..(i - 1) : d.rows[j] # d.rows[i]}
      F[i \in 0..Len(d.rows)] ==
        IF i = 0 THEN <<>>
        ELSE IF i \in keep THEN Append(F[i - 1], d.rows[i]) ELSE F[i - 1]
  IN [cols |-> d.cols, rows |-> F[Len(d.rows)]]

\* the four validity masks of basic_cleaning, one per bounded column
age_ok(r) == IsNull(r["age"]) \/ (r["age"].v >= 0 /\ r["age"].v <= 120)
wait_ok(r) == IsNull(r["wait_time_minutes"]) \/ r["wait_time_minutes"].v >= 0
satisfaction_ok(r) ==
  IsNull(r["satisfaction_score"])
    \/ (r["satisfaction_score"].v >= 0 /\ r["satisfaction_score"].v <= 10)
admitted_ok(r) == (IsNum(r["admitted"]) /\ r["admitted"].v \in {0, 1}) \/ IsNull(r["admitted"])

\* the numeric coercions and the flag mapping of basic_cleaning
coerce_numerics(d) ==
  LET d1 == WithColumn(d, "age", [i \in Index(d) |-> to_numeric(d.rows[i]["age"])])
      d2 == WithColumn(d1, "wait_time_minutes",
                       [i \in Index(d) |-> to_numeric(d.rows[i]["wait_time_minutes"])])
  IN WithColumn(d2, "satisfaction_score",
                [i \in Index(d) |-> to_numeric(d.rows[i]["satisfaction_score"])])

\* the boolean masks of the four filters
age_mask(d) == [i \in Index(d) |-> age_ok(d.rows[i])]
wait_mask(d) == [i \in Index(d) |-> wait_ok(d.rows[i])]
satisfaction_mask(d) == [i \in Index(d) |-> satisfaction_ok(d.rows[i])]
admitted_mask(d) == [i \in Index(d) |-> admitted_ok(d.rows[i])]

\* the validity filters without the one on wait_time_minutes
validity_filters_no_wait(d) ==
  LET d1 == FilterRows(d, age_mask(d))
      d3 == FilterRows(d1, satisfaction_mask(d1))
  IN FilterRows(d3, admitted_mask(d3))

\* the validity filters of basic_cleaning, applied one after the other
validity_filters(d) ==
  LET d1 == FilterRows(d, age_mask(d))
      d2 == FilterRows(d1, wait_mask(d1))
      d3 == FilterRows(d2, satisfaction_mask(d2))
  IN FilterRows(d3, admitted_mask(d3))

\* the categorical clean-up of basic_cleaning: astype(str) then strip
strip_categoricals(d) ==
  LET d1 == WithColumn(d, "gender",
                       [i \in Index(d) |-> Str(strip(astype_str(d.rows[i]["gender"])))])
      d2 == WithColumn(d1, "race",
                       [i \in Index(d) |-> Str(strip(astype_str(d.rows[i]["race"])))])
  IN WithColumn(d2, "department",
                [i \in Index(d) |-> Str(strip(astype_str(d.rows[i]["department"])))])

basic_cleaning(d) ==
  strip_categoricals(validity_filters(map_admission_flag(coerce_numerics(drop_duplicates(d)))))

CleaningInputs ==
  {"age", "wait_time_minutes", "satisfaction_score", "admitted_raw", "gender", "race",
   "department"}

----------------------------------------------------------------------------
(* main() of data_loader.py, one action per call it makes *)

\* load_raw_data
LoadRawData ==
  /\ pc = "start"
  /\ IF raw = NOFILE
     THEN /\ err' = [t |-> "FileNotFoundError"]
          /\ pc' = "failed"
          /\ df' = df
     ELSE /\ df' = raw
          /\ pc' = "loaded"
          /\ err' = err
  /\ UNCHANGED <<raw, processed, goldVars, svcVars>>

\* validate_schema(df)
ValidateSchema ==
  /\ pc = "loaded"
  /\ IF validate_schema(df) # NOERR
     THEN /\ err' = validate_schema(df)
          /\ pc' = "failed"
     ELSE /\ pc' = "validated"
          /\ err' = err
  /\ UNCHANGED <<raw, df, processed, goldVars, svcVars>>

\* df = standardise_columns(df)
StandardiseColumns ==
  /\ pc = "validated"
  /\ df' = standardise_columns(df)
  /\ pc' = "standardised"
  /\ UNCHANGED <<raw, err, processed, goldVars, svcVars>>

\* df = parse_datetimes(df): indexing a column that is absent raises KeyError
ParseDatetimes ==
  /\ pc = "standardised"
  /\ IF DatetimeInputs \subseteq df.cols
     THEN /\ df' = parse_datetimes(df)
          /\ pc' = "parsed"
          /\ err' = err
     ELSE /\ err' = [t |-> "KeyError"]
          /\ pc' = "failed"
          /\ df' = df
  /\ UNCHANGED <<raw, processed, goldVars, svcVars>>

\* df = basic_cleaning(df)
BasicCleaning ==
  /\ pc = "parsed"
  /\ IF CleaningInputs \subseteq df.cols
     THEN /\ df' = basic_cleaning(df)
          /\ pc' = "cleaned"
          /\ err' = err
     ELSE /\ err' = [t |-> "KeyError"]
          /\ pc' = "failed"
          /\ df' = df
  /\ UNCHANGED <<raw, processed, goldVars, svcVars>>

\* the drop of admitted_raw and save_processed(df), which overwrites the snapshot
SaveProcessed ==
  /\ pc = "cleaned"
  /\ df' = (IF "admitted_raw" \in df.cols THEN DropColumn(df, "admitted_raw") ELSE df)
  /\ processed' = df'
  /\ pc' = "done"
  /\ UNCHANGED <<raw, err, goldVars, svcVars>>

----------------------------------------------------------------------------
(* Raw tables the cleaner is run on *)

T_date == <<"2","0","2","4","-","0","1","-","0","5">>
T_bad_date == <<"2","0","2","4","-","0","2","-","3","0">>
T_time_0900 == <<"0","9",":","0","0">>
T_merged == <<"2","0","2","4","-","0","1","-","0","5"," ","1","4",":","3","0">>
T_Admission == <<"A","d","m","i","s","s","i","o","n">>
T_not_admission_padded == <<" ","N","o","t"," ","A","d","m","i","s","s","i","o","n"," ">>
T_maybe == <<"m","a","y","b","e">>

DefaultRow ==
  [c \in RequiredSet |->
     CASE c = "Patient Id" -> Num(1)
       [] c = "Patient Admission Date" -> Str(T_date)
       [] c = "Patient Admission Time" -> Str(T_time_0900)
       [] c = "Merged" -> Str(T_merged)
       [] c = "Patient Gender" -> Str(<<"F">>)
       [] c = "Patient Age" -> Num(30)
       [] c = "Patient Race" -> Str(<<"w">>)
       [] c = "Department Referral" -> Str(<<"a">>)
       [] c = "Patient Admission Flag" -> Str(T_Admission)
       [] c = "Patient Satisfaction Score" -> Num(5)
       [] c = "Patient Waittime" -> Num(10)]

\* rows that differ in the bounded fields: on a bound, out of range,
\* unparseable, missing
BoundedRows ==
  { [c \in RequiredSet |->
       CASE c = "Patient Age" -> a
         [] c = "Patient Waittime" -> w
         [] c = "Patient Admission Flag" -> f
         [] OTHER -> DefaultRow[c]] :
      a \in {Num(120), Num(121), Str(<<"x">>)},
      w \in {Num(0), Num(-1)},
      f \in {Str(T_Admission), Str(T_not_admission_padded), Str(T_maybe)} }
  \cup
  { [c \in RequiredSet |-> IF c = k[1] THEN k[2] ELSE DefaultRow[c]] :
      k \in { <<"Patient Age", Str(<<"-","1">>)>>,
              <<"Patient Age", Num(0)>>,
              <<"Patient Waittime", NULL>>,
              <<"Patient Satisfaction Score", Num(11)>>,
              <<"Patient Satisfaction Score", Str(<<"1","0">>)>>,
              <<"Patient Satisfaction Score", Num(-1)>> } }

\* rows that differ in the two date/time representations
DatetimeRows ==
  { [c \in RequiredSet |->
       CASE c = "Merged" -> m
         [] c = "Patient Admission Date" -> d
         [] c = "Patient Admission Time" -> tm
         [] OTHER -> DefaultRow[c]] :
      m \in {Str(T_merged), Str(<<"x">>), NULL},
      d \in {Str(T_date), Str(T_bad_date), NULL},
      tm \in {Str(T_time_0900), NULL} }

\* rows that differ only in what the cleaning normalises after it has removed
\* duplicates: blanks around a category, the spelling of the flag, a number
\* that does not parse
NormalisedRows ==
  { DefaultRow }
  \cup
  { [c \in RequiredSet |-> IF c = k[1] THEN k[2] ELSE DefaultRow[c]] :
      k \in { <<"Department Referral", Str(<<"a"," ">>)>>,
              <<"Patient Admission Flag", Str(S_yes)>>,
              <<"Patient Age", Str(<<"x">>)>>,
              <<"Patient Age", NULL>> } }

SeqsUpTo(S, n) == UNION {[1..k -> S] : k \in 0..n}

\* tables with every required column
FullTables ==
  {[cols |-> RequiredSet, rows |-> rs] :
     rs \in SeqsUpTo(BoundedRows, MaxRows) \cup SeqsUpTo(DatetimeRows, MaxRows)
             \cup SeqsUpTo(NormalisedRows, MaxRows)}

\* tables that lack one or two of the required columns
PartialTables ==
  {[cols |-> RequiredSet \ miss,
    rows |-> <<[c \in RequiredSet \ miss |-> DefaultRow[c]]>>] :
     miss \in {m \in SUBSET RequiredSet : Cardinality(m) \in {1, 2}}}

\* the service is not running
ServiceDown ==
  /\ svc = "down"
  /\ sqlFile = NOSQL
  /\ lineNo = 0
  /\ blocks = {}
  /\ current_name = NULL
  /\ current_sql_lines = <<>>
  /\ METRICS_QUERIES = {}
  /\ files = {}
  /\ env = [v \in {"MODEL_URL", "DB_URL"} |-> NULL]
  /\ envReads = {}
  /\ downloads = <<>>
  /\ artifact = NULL
  /\ MODEL = NULL
  /\ request = NOREQUEST
  /\ response = NORESPONSE

IngestInit ==
  /\ raw \in {NOFILE} \cup FullTables \cup PartialTables
  /\ df = NODF
  /\ pc = "start"
  /\ err = NOERR
  /\ processed = NOFILE
  /\ warehouse = EmptyWarehouse
  /\ builds = 0
  /\ tieOrder = "key_asc"
  /\ ServiceDown

IngestNext ==
  \/ LoadRawData
  \/ ValidateSchema
  \/ StandardiseColumns
  \/ ParseDatetimes
  \/ BasicCleaning
  \/ SaveProcessed

SpecIngest == IngestInit /\ [][IngestNext]_vars

----------------------------------------------------------------------------
(* Claims about the cleaner, checked under SpecIngest *)

RawComplete == raw # NOFILE /\ RequiredSet \subseteq raw.cols

\* the frame basic_cleaning filters: the raw rows renamed, parsed, deduplicated,
\* coerced and flag-mapped
BeforeFilters ==
  map_admission_flag(coerce_numerics(drop_duplicates(
    parse_datetimes(standardise_columns(raw)))))

InRangeOrNull(c, lo, hi) == IsNull(c) \/ (IsNum(c) /\ c.v >= lo /\ c.v <= hi)
AtLeastOrNull(c, lo) == IsNull(c) \/ (IsNum(c) /\ c.v >= lo)

RowWithinBounds(r) ==
  /\ InRangeOrNull(r["age"], 0, 120)
  /\ AtLeastOrNull(r["wait_time_minutes"], 0)
  /\ InRangeOrNull(r["satisfaction_score"], 0, 10)
  /\ (IsNull(r["admitted"]) \/ r["admitted"] \in {Num(0), Num(1)})

BoundedFields(r) ==
  <<r["patient_id"], r["age"], r["wait_time_minutes"], r["satisfaction_score"], r["admitted"]>>

FieldsOf(rows) == [i \in 1..Len(rows) |-> BoundedFields(rows[i])]

\* C1: once basic_cleaning has run, the frame holds exactly the deduplicated
\* rows whose bounded fields are all in range or null, in their order; so no
\* cleaned row carries an out-of-range value and admitted is 0, 1 or null.
C1_CleanedRowsWithinBounds ==
  (pc \in {"cleaned", "done"}) =>
     /\ FieldsOf(df.rows) = FieldsOf(SelectSeq(BeforeFilters.rows, RowWithinBounds))
     /\ \A i \in 1..Len(df.rows) : RowWithinBounds(df.rows[i])
     /\ (pc = "done" => processed = df)

\* a run of basic_cleaning that dropped one row and retained another
C1_Witness ==
  /\ pc = "cleaned"
  /\ Len(df.rows) = 1
  /\ Len(BeforeFilters.rows) = 2
  /\ IsNull(df.rows[1]["admitted"])

RawMissing == {c \in RequiredSet : c \notin raw.cols}

\* C2: a raw table lacking a required column makes main() fail with a schema
\* error listing the missing columns, before renaming, parsing or cleaning and
\* without writing the snapshot; a complete table raises no schema error.
C2_SchemaErrorBeforeTransform ==
  (raw # NOFILE) =>
     /\ (RawMissing # {} =>
           /\ pc \in {"start", "loaded", "failed"}
           /\ df \in {NODF, raw}
           /\ processed = NOFILE
           /\ (pc = "failed" =>
                 /\ err.t = "ValueError"
                 /\ {err.missing[i] : i \in 1..Len(err.missing)} = RawMissing))
     /\ (RawMissing = {} => err.t # "ValueError")

\* a run that failed on a table lacking two columns, the last required one among them
C2_Witness ==
  /\ pc = "failed"
  /\ err.t = "ValueError"
  /\ Len(err.missing) = 2
  /\ "Patient Waittime" \in RawMissing

\* the text of the separate date and time cells joined by a blank, when both
\* are present
JoinedDateTime(r) ==
  IF IsStr(r["Patient Admission Date"]) /\ IsStr(r["Patient Admission Time"])
  THEN Str(r["Patient Admission Date"].s \o <<" ">> \o r["Patient Admission Time"].s)
  ELSE NULL

ExpectedEventDatetime(r) ==
  IF to_datetime(r["Merged"]) # NULL THEN to_datetime(r["Merged"])
  ELSE IF to_datetime(JoinedDateTime(r)) # NULL THEN to_datetime(JoinedDateTime(r))
  ELSE NULL

\* C3: parse_datetimes gives every row the parse of the merged field when it
\* succeeds, else the parse of the joined date and time when that succeeds,
\* else null; it never raises on a table with the required columns.
C3_EventDatetimePrefersMerged ==
  RawComplete =>
     /\ pc # "failed"
     /\ (pc = "parsed" =>
           /\ Len(df.rows) = Len(raw.rows)
           /\ \A i \in 1..Len(df.rows) :
                df.rows[i]["event_datetime"] = ExpectedEventDatetime(raw.rows[i]))

\* a parsed table in which one row has two successful parses that differ and
\* carries the merged one, and another row fell back to the joined date and time
C3_Witness ==
  /\ pc = "parsed"
  /\ RawComplete
  /\ \E i \in 1..Len(df.rows) :
       /\ to_datetime(raw.rows[i]["Merged"]) # NULL
       /\ to_datetime(JoinedDateTime(raw.rows[i])) # NULL
       /\ to_datetime(raw.rows[i]["Merged"]) # to_datetime(JoinedDateTime(raw.rows[i]))
       /\ df.rows[i]["event_datetime"] = to_datetime(raw.rows[i]["Merged"])
  /\ \E i \in 1..Len(df.rows) :
       /\ to_datetime(raw.rows[i]["Merged"]) = NULL
       /\ df.rows[i]["event_datetime"] # NULL

\* C11: the cleaned snapshot main() writes holds no two rows that are equal in
\* every output column.
C11_CleanedOutputDeduplicated ==
  (pc = "done" /\ processed # NOFILE) =>
     \A i, j \in 1..Len(processed.rows) :
        i # j => processed.rows[i] # processed.rows[j]

----------------------------------------------------------------------------
(* Inputs of the service *)

Q_department_metrics == <<"d","e","p","a","r","t","m","e","n","t","_","m","e","t","r","i","c","s">>
Q_daily_volume == <<"d","a","i","l","y","_","v","o","l","u","m","e">>

\* the query texts of sql/metrics_queries.sql
SQL_department_metrics ==
  <<"S","E","L","E","C","T"," ","*"," ","F","R","O","M"," ","g","o","l","d","_","d","e","p","a","r","t","m","e","n","t","_","w","a","i","t","s">>
SQL_daily_volume ==
  <<"S","E","L","E","C","T"," ","*"," ","F","R","O","M"," ","g","o","l","d","_","d","a","i","l","y","_","v","o","l","u","m","e">>

\* sql/metrics_queries.sql as the service is deployed with
GoodSqlFile ==
  << <<"-","-"," ","n","a","m","e",":"," ","d","e","p","a","r","t","m","e","n","t","_","m","e","t","r","i","c","s">>,
     SQL_department_metrics,
     <<>>,
     <<"-","-"," ","n","a","m","e",":"," ","d","a","i","l","y","_","v","o","l","u","m","e">>,
     SQL_daily_volume >>

\* lines a named-query file is made of: markers in both cases and with
\* surrounding blanks, a marker without identifier, a near-marker, query text
\* with surrounding blanks, a blank line
SqlLines ==
  { <<"-","-"," ","n","a","m","e",":"," ","a">>,
    <<" "," ","-","-"," ","N","A","M","E",":","b"," ">>,
    <<"-","-"," ","n","a","m","e",":">>,
    <<"-","-","n","a","m","e",":"," ","a">>,
    <<" ","x"," ">>,
    <<>> }

\* the bodies of /predict requests: valid ones, with seen and unseen
\* categories, and ones a field of which is out of range or missing
Requests ==
  { [age |-> a, gender |-> g, race |-> Str(<<"w">>), department_id |-> d,
     event_hour |-> Num(14), event_dayofweek |-> Num(2), wait_time_minutes |-> w] :
      a \in {Num(30), Num(121)},
      g \in {Str(<<"F">>), Str(<<"X">>)},
      d \in {Num(1), Num(2), Num(7)},
      w \in {Num(10), Num(-1), NULL} }

----------------------------------------------------------------------------
(* load_metrics_sql of app/main.py.  A dict is a set of <<key, value>> pairs *)
(* with one pair per key.                                                   *)

DictKeys(d) == {kv[1] : kv \in d}
DictGet(d, k) == (CHOOSE kv \in d : kv[1] = k)[2]
\* d[k] = v
DictSet(d, k, v) == {kv \in d : kv[1] # k} \cup {<<k, v>>}

MARKER == <<"-","-"," ","n","a","m","e",":">>

\* the marker test without lower()
is_marker_case_sensitive(line) == startswith(strip(line), MARKER)

\* line_stripped.lower().startswith("-- name:")
is_marker(line) == startswith(lower(strip(line)), MARKER)

\* s.split(":", 1)[1]: what follows the first colon
RECURSIVE after_colon(_)
after_colon(s) ==
  IF s = <<>> THEN <<>> ELSE IF Head(s) = ":" THEN Tail(s) ELSE after_colon(Tail(s))

\* "\n".join(lines)
RECURSIVE join(_)
join(lines) ==
  IF lines = <<>> THEN <<>>
  ELSE IF Len(lines) = 1 THEN lines[1]
  ELSE lines[1] \o <<"\n">> \o join(Tail(lines))

\* the "save" of load_metrics_sql: if current_name and current_sql_lines
save_block(b, name, lines) ==
  IF IsStr(name) /\ name.s # <<>> /\ lines # <<>>
  THEN DictSet(b, name.s, strip(join(lines)))
  ELSE b

\* the check on the blocks found without its test
check_blocks_absent(b) == NOERR

\* if not blocks: raise RuntimeError
check_blocks(b) == IF b = {} THEN [t |-> "RuntimeError", what |-> "no named blocks"] ELSE NOERR

\* import of the module: load_metrics_sql up to its loop
LoadMetricsSqlOpen ==
  /\ svc = "import"
  /\ IF ~sqlFile.exists
     THEN /\ err' = [t |-> "RuntimeError", what |-> "missing sql file"]
          /\ svc' = "import_failed"
          /\ UNCHANGED <<lineNo, blocks, current_name, current_sql_lines>>
     ELSE /\ blocks' = {}
          /\ current_name' = NULL
          /\ current_sql_lines' = <<>>
          /\ lineNo' = 1
          /\ svc' = "parsing"
          /\ err' = err
  /\ UNCHANGED <<raw, df, pc, processed, goldVars, sqlFile, METRICS_QUERIES, startupVars,
                 request, response>>

\* one pass of the loop over text.splitlines()
LoadMetricsSqlLine ==
  /\ svc = "parsing"
  /\ lineNo <= Len(sqlFile.lines)
  /\ IF is_marker(sqlFile.lines[lineNo])
     THEN /\ blocks' = save_block(blocks, current_name, current_sql_lines)
          /\ current_name' = Str(strip(after_colon(strip(sqlFile.lines[lineNo]))))
          /\ current_sql_lines' = <<>>
     ELSE /\ current_sql_lines' =
               (IF current_name # NULL THEN Append(current_sql_lines, sqlFile.lines[lineNo])
                ELSE current_sql_lines)
          /\ UNCHANGED <<blocks, current_name>>
  /\ lineNo' = lineNo + 1
  /\ UNCHANGED <<ingestVars, goldVars, svc, sqlFile, METRICS_QUERIES, startupVars,
                 request, response>>

\* the end of load_metrics_sql: save the last block, fail on none, return; the
\* locals of the call are gone
LoadMetricsSqlClose ==
  /\ svc = "parsing"
  /\ lineNo > Len(sqlFile.lines)
  /\ LET last == save_block(blocks, current_name, current_sql_lines)
     IN IF check_blocks(last) # NOERR
        THEN /\ err' = check_blocks(last)
             /\ svc' = "import_failed"
             /\ UNCHANGED METRICS_QUERIES
        ELSE /\ METRICS_QUERIES' = last
             /\ svc' = "imported"
             /\ err' = err
  /\ lineNo' = 0
  /\ blocks' = {}
  /\ current_name' = NULL
  /\ current_sql_lines' = <<>>
  /\ UNCHANGED <<raw, df, pc, processed, goldVars, sqlFile, startupVars, request, response>>

\* load_metrics_sql on the lines of a file that exists: the blocks its loop
\* and last save leave
load_metrics_sql(lines) ==
  LET S[i \in 0..Len(lines)] ==
        IF i = 0 THEN [b |-> {}, name |-> NULL, acc |-> <<>>]
        ELSE IF is_marker(lines[i])
             THEN [b |-> save_block(S[i - 1].b, S[i - 1].name, S[i - 1].acc),
                   name |-> Str(strip(after_colon(strip(lines[i])))),
                   acc |-> <<>>]
             ELSE [b |-> S[i - 1].b,
                   name |-> S[i - 1].name,
                   acc |-> IF S[i - 1].name # NULL THEN Append(S[i - 1].acc, lines[i])
                           ELSE S[i - 1].acc]
      last == S[Len(lines)]
  IN save_block(last.b, last.name, last.acc)

----------------------------------------------------------------------------
(* ensure_file and startup of app/main.py *)

MODEL_PATH == "models/admission_model.joblib"
DB_PATH == "warehouse/hospital_ops.duckdb"

\* "if not url": an unset variable and an empty one are both no URL
no_url(url) == IsNull(url) \/ url.s = <<>>

\* ensure_file calling os.getenv before it looks for the file
ensure_file_reads_first(path, env_var, st) ==
  IF path \in st.files
  THEN [st EXCEPT !.envReads = @ \cup {env_var}]
  ELSE IF no_url(st.env[env_var])
  THEN [st EXCEPT !.envReads = @ \cup {env_var},
                  !.err = [t |-> "RuntimeError", what |-> env_var]]
  ELSE [st EXCEPT !.envReads = @ \cup {env_var},
                  !.downloads = Append(@, <<st.env[env_var].s, path>>),
                  !.files = @ \cup {path}]

\* ensure_file(path, env_var, friendly_name) on st = [files, env, envReads,
\* downloads, err]: nothing when the file is there; else the URL is read and
\* the file retrieved to path, a RuntimeError when there is no URL
ensure_file(path, env_var, st) ==
  IF path \in st.files
  THEN st
  ELSE IF no_url(st.env[env_var])
  THEN [st EXCEPT !.envReads = @ \cup {env_var},
                  !.err = [t |-> "RuntimeError", what |-> env_var]]
  ELSE [st EXCEPT !.envReads = @ \cup {env_var},
                  !.downloads = Append(@, <<st.env[env_var].s, path>>),
                  !.files = @ \cup {path}]

StartupState == [files |-> files, env |-> env, envReads |-> envReads,
                 downloads |-> downloads, err |-> NOERR]

\* startup: ensure_file(MODEL_PATH, "MODEL_URL", ...)
StartupEnsureModel ==
  /\ svc = "imported"
  /\ LET st == ensure_file(MODEL_PATH, "MODEL_URL", StartupState)
     IN /\ files' = st.files
        /\ envReads' = st.envReads
        /\ downloads' = st.downloads
        /\ IF st.err # NOERR
           THEN err' = st.err /\ svc' = "startup_failed"
           ELSE err' = err /\ svc' = "ensure_db"
  /\ UNCHANGED <<raw, df, pc, processed, goldVars, loadVars, env, artifact, MODEL,
                 request, response>>

\* startup: ensure_file(DB_PATH, "DB_URL", ...)
StartupEnsureDb ==
  /\ svc = "ensure_db"
  /\ LET st == ensure_file(DB_PATH, "DB_URL", StartupState)
     IN /\ files' = st.files
        /\ envReads' = st.envReads
        /\ downloads' = st.downloads
        /\ IF st.err # NOERR
           THEN err' = st.err /\ svc' = "startup_failed"
           ELSE err' = err /\ svc' = "load_model"
  /\ UNCHANGED <<raw, df, pc, processed, goldVars, loadVars, env, artifact, MODEL,
                 request, response>>

\* startup: MODEL = joblib.load(MODEL_PATH); the application then serves
StartupLoadModel ==
  /\ svc = "load_model"
  /\ MODEL' = artifact
  /\ svc' = "serving"
  /\ UNCHANGED <<ingestVars, goldVars, loadVars, files, env, envReads, downloads, artifact,
                 request, response>>

----------------------------------------------------------------------------
(* The fitted pipeline (train_admission_model.py) and POST /predict *)

categorical_features == {"gender", "race", "department_id"}

\* OneHotEncoder(handle_unknown=...) set to raise on an unseen category
handle_unknown_error == "error"

\* OneHotEncoder(handle_unknown="ignore")
handle_unknown == "ignore"

\* clf.fit(X_train, y_train): the encoder learns, for each categorical feature,
\* the values present in the training rows (missing ones imputed away)
fit(X_train) ==
  [t |-> "pipeline",
   handle_unknown |-> handle_unknown,
   categories |-> [f \in categorical_features |->
                     {X_train[i][f] : i \in {j \in 1..Len(X_train) : ~IsNull(X_train[j][f])}}]]

\* load_training_data: the feature projection of the fact rows with a label
load_training_data(wh) == SelectSeq(wh.fact_encounter.rows, LAMBDA r : ~IsNull(r.admitted))

\* X.iloc[S]: the rows at the positions of S, in their order
iloc(rows, S) ==
  [i \in 1..Cardinality(S) |->
     rows[CHOOSE j \in S : Cardinality({k \in S : k < j}) = i - 1]]

\* train_test_split(X, y, test_size=0.2, random_state=42, stratify=y): the
\* positions the train part can take. The test part has ceil(0.2 n) rows; each
\* class keeps its share of the train part, rounded down or up; the split raises
\* when a class has one member or a part is smaller than the number of classes.
\* Which rows the seeded shuffle picks is left open.
train_test_split(rows) ==
  LET n == Len(rows)
      n_test == (n + 4) \div 5
      n_train == n - n_test
      classes == {rows[i].admitted : i \in 1..n}
      members(c) == {i \in 1..n : rows[i].admitted = c}
  IN IF \/ n_train = 0
        \/ \E c \in classes : Cardinality(members(c)) < 2
        \/ n_test < Cardinality(classes)
        \/ n_train < Cardinality(classes)
     THEN {}
     ELSE {S \in SUBSET (1..n) :
             /\ Cardinality(S) = n_train
             /\ \A c \in classes :
                  LET k == Cardinality(S \cap members(c))
                      e == Cardinality(members(c)) * n_train
                  IN k >= e \div n /\ k <= (e + n - 1) \div n}

\* main() of train_admission_model.py: the pipelines it can dump. With fewer
\* than two classes in a part, predict_proba(X_test)[:, 1] or roc_auc_score
\* raises before joblib.dump.
trained_pipelines(wh) ==
  LET data == load_training_data(wh)
      classesOf(S) == {data[i].admitted : i \in S}
  IN {fit(iloc(data, S)) :
        S \in {T \in train_test_split(data) :
                 /\ Cardinality(classesOf(T)) = 2
                 /\ Cardinality(classesOf((1..Len(data)) \ T)) = 2}}

\* OneHotEncoder.transform on one value: one indicator per learnt category, all
\* zero for an unseen value when unknowns are ignored, ValueError otherwise
onehot(pipeline, f, value) ==
  IF value \notin pipeline.categories[f] /\ pipeline.handle_unknown # "ignore"
  THEN [t |-> "ValueError"]
  ELSE [t |-> "encoded",
        bits |-> [c \in pipeline.categories[f] |-> IF c = value THEN 1 ELSE 0]]

\* the constraints of AdmissionRequest: every field present, age in 0..120,
\* event_hour in 0..23, event_dayofweek in 0..6, wait_time_minutes >= 0
valid_request(body) ==
  /\ \A f \in DOMAIN body : ~IsNull(body[f])
  /\ body.age.v >= 0 /\ body.age.v <= 120
  /\ body.event_hour.v >= 0 /\ body.event_hour.v <= 23
  /\ body.event_dayofweek.v >= 0 /\ body.event_dayofweek.v <= 6
  /\ body.wait_time_minutes.v >= 0

\* int(proba >= 0.5) for proba = k / ProbScale
admitted_prediction(k) == IF 2 * k >= ProbScale THEN 1 ELSE 0

\* POST /predict
Predict ==
  /\ svc = "serving"
  /\ \E body \in Requests :
       /\ request' = [endpoint |-> "/predict", body |-> body]
       /\ IF ~valid_request(body)
          THEN response' = [t |-> "error", status |-> 422]
          ELSE IF \E f \in categorical_features : onehot(MODEL, f, body[f]).t = "ValueError"
          THEN response' = [t |-> "error", status |-> 500]
          ELSE \E k \in 0..ProbScale :
                 response' = [t |-> "prediction",
                              admitted_probability |-> k,
                              admitted_prediction |-> admitted_prediction(k)]
  /\ UNCHANGED <<ingestVars, goldVars, svc, loadVars, startupVars>>

\* GET /health
Health ==
  /\ svc = "serving"
  /\ request' = [endpoint |-> "/health"]
  /\ response' = [t |-> "ok"]
  /\ <<request', response'>> # <<request, response>>
  /\ UNCHANGED <<ingestVars, goldVars, svc, loadVars, startupVars>>

----------------------------------------------------------------------------
(* main() of build_gold.py.  A table is the sequence of its rows.  Where a  *)
(* query leaves the order of rows open (DISTINCT, rows whose ORDER BY keys  *)
(* are equal) the order is the engine's, held in tieOrder: it is not known, *)
(* but the same engine on the same input repeats it.                        *)

\* the characters of the model in code-point order: VARCHAR compares bytewise
CodePoints ==
  << "\t", "\n", " ", "-", "0", "1", "2", "3", "4", "5", "6", "7", "8", "9",
     ":", "A", "B", "C", "D", "E", "F", "G", "H", "I", "J", "K", "L", "M",
     "N", "O", "P", "Q", "R", "S", "T", "U", "V", "W", "X", "Y", "Z", "a",
     "b", "c", "d", "e", "f", "g", "h", "i", "j", "k", "l", "m", "n", "o",
     "p", "q", "r", "s", "t", "u", "v", "w", "x", "y", "z" >>

CharCode(c) == CHOOSE i \in 1..Len(CodePoints) : CodePoints[i] = c

\* a < b on VARCHAR
RECURSIVE StrLess(_, _)
StrLess(a, b) ==
  IF b = <<>> THEN FALSE
  ELSE IF a = <<>> THEN TRUE
  ELSE IF Head(a) = Head(b) THEN StrLess(Tail(a), Tail(b))
  ELSE CharCode(Head(a)) < CharCode(Head(b))

S_nan == <<"n","a","n">>

RowSet(d) == {d.rows[i] : i \in Index(d)}

\* the names that pass the WHERE of dim_department and are not null, with 'nan' kept
department_names_with_nan(silver) ==
  {r["department"].s : r \in {x \in RowSet(silver) : IsStr(x["department"])}}

\* SELECT DISTINCT department ... WHERE department IS NOT NULL AND department <> 'nan'
department_names(silver) ==
  {r["department"].s :
     r \in {x \in RowSet(silver) : IsStr(x["department"]) /\ x["department"].s # S_nan}}

\* dense_rank() OVER (ORDER BY department) over distinct names
dense_rank(name, names) == 1 + Cardinality({o \in names : StrLess(o, name)})

\* the rows of dim_department, as the window operator emits them: by rank
dim_department(silver) ==
  LET names == department_names(silver)
  IN [k \in 1..Cardinality(names) |->
        LET n == CHOOSE x \in names : dense_rank(x, names) = k
        IN [department_id |-> Num(k), department_name |-> Str(n)]]

\* a < b on DATE
DateLess(a, b) ==
  \/ a.y < b.y
  \/ a.y = b.y /\ a.mo < b.mo
  \/ a.y = b.y /\ a.mo = b.mo /\ a.d < b.d

\* the engine's order of two dates where the query asks for none
DateBefore(a, b, order) == IF order = "key_asc" THEN DateLess(a, b) ELSE DateLess(b, a)

\* EXTRACT(dow FROM date): Sunday = 0
dow(date) == (dayofweek(date) + 1) % 7

\* SELECT DISTINCT CAST(event_date AS DATE), year, month, day, dow ... WHERE event_date IS NOT NULL
dim_date(silver, order) ==
  LET dates == {r["event_date"] : r \in {x \in RowSet(silver) : ~IsNull(x["event_date"])}}
  IN [k \in 1..Cardinality(dates) |->
        LET dt == CHOOSE x \in dates : Cardinality({o \in dates : DateBefore(o, x, order)}) = k - 1
        IN [date |-> dt, year |-> dt.y, month |-> dt.mo, day |-> dt.d, day_of_week |-> dow(dt)]]

\* the department keys an inner join gives silver row s: none when no name matches
join_matches_inner(s, dim) ==
  LET ids == {dim[k].department_id.v : k \in {j \in 1..Len(dim) : dim[j].department_name = s["department"]}}
  IN [k \in 1..Cardinality(ids) |->
        Num(CHOOSE x \in ids : Cardinality({o \in ids : o < x}) = k - 1)]

\* LEFT JOIN dim_department d ON s.department = d.department_name: the keys of
\* the matching rows, or one null key when no row matches
join_matches(s, dim) ==
  IF join_matches_inner(s, dim) = <<>> THEN <<NULL>> ELSE join_matches_inner(s, dim)

\* the select list of fact_encounter but encounter_id
fact_columns(s, dept_id) ==
  [patient_id |-> s["patient_id"], department_id |-> dept_id,
   event_datetime |-> s["event_datetime"], event_date |-> s["event_date"],
   event_hour |-> s["event_hour"], event_dayofweek |-> s["event_dayofweek"],
   event_month |-> s["event_month"], age |-> s["age"], gender |-> s["gender"],
   race |-> s["race"], wait_time_minutes |-> s["wait_time_minutes"],
   satisfaction_score |-> s["satisfaction_score"], admitted |-> s["admitted"]]

\* fact_encounter: the joined rows in scan order, numbered by row_number() OVER ()
fact_encounter(silver, dim) ==
  LET J[i \in 0..Len(silver.rows)] ==
        IF i = 0 THEN <<>>
        ELSE J[i - 1] \o [k \in 1..Len(join_matches(silver.rows[i], dim)) |->
                            fact_columns(silver.rows[i], join_matches(silver.rows[i], dim)[k])]
      joined == J[Len(silver.rows)]
  IN [n \in 1..Len(joined) |->
        [c \in DOMAIN joined[n] \cup {"encounter_id"} |->
           IF c = "encounter_id" THEN Num(n) ELSE joined[n][c]]]

\* the non-null values of column c over rows, as integers, in row order
Values(rows, c) ==
  LET F[i \in 0..Len(rows)] ==
        IF i = 0 THEN <<>>
        ELSE IF IsNull(rows[i][c]) THEN F[i - 1] ELSE Append(F[i - 1], rows[i][c].v)
  IN F[Len(rows)]

RECURSIVE SumSeq(_)
SumSeq(xs) == IF xs = <<>> THEN 0 ELSE Head(xs) + SumSeq(Tail(xs))

\* AVG(c): the exact quotient sum/count of the non-null values, null when there are none
AVG(rows, c) ==
  IF Values(rows, c) = <<>> THEN NULL
  ELSE [t |-> "avg", sum |-> SumSeq(Values(rows, c)), count |-> Len(Values(rows, c))]

\* xs in ascending order
Ascending(xs) ==
  [k \in 1..Len(xs) |->
     LET i == CHOOSE j \in 1..Len(xs) :
                Cardinality({o \in 1..Len(xs) : xs[o] < xs[j] \/ (xs[o] = xs[j] /\ o < j)}) = k - 1
     IN xs[i]]

\* quantile_cont(c, q) for q = tenths/10, in tenths of the column's unit: linear
\* interpolation between the two order statistics around (n - 1) * q
quantile_cont(rows, c, tenths) ==
  IF Values(rows, c) = <<>> THEN NULL
  ELSE LET xs == Ascending(Values(rows, c))
           pos == tenths * (Len(xs) - 1)
           lo == (pos \div 10) + 1
           r == pos % 10
       IN [t |-> "tenths",
           v |-> 10 * xs[lo] + (IF r = 0 THEN 0 ELSE (xs[lo + 1] - xs[lo]) * r)]

\* the rows of fact with value k in column c
GroupRows(fact, c, k) == SelectSeq(fact, LAMBDA r : r[c] = k)

\* ORDER BY event_date: ascending, nulls last
daily_before(a, b) ==
  /\ ~IsNull(a.event_date)
  /\ (IsNull(b.event_date) \/ DateLess(a.event_date, b.event_date))

\* gold_daily_volume: GROUP BY event_date ORDER BY event_date
gold_daily_volume(fact) ==
  LET groups ==
        {[event_date |-> k,
          encounters |-> Len(GroupRows(fact, "event_date", k)),
          avg_wait_time_minutes |-> AVG(GroupRows(fact, "event_date", k), "wait_time_minutes"),
          avg_satisfaction |-> AVG(GroupRows(fact, "event_date", k), "satisfaction_score")] :
           k \in {fact[i].event_date : i \in 1..Len(fact)}}
  IN [n \in 1..Cardinality(groups) |->
        CHOOSE g \in groups : Cardinality({h \in groups : daily_before(h, g)}) = n - 1]

KeyRank(id) == IF IsNull(id) THEN 0 ELSE id.v

\* ORDER BY p90_wait_time_minutes DESC: descending, nulls last; rows with equal
\* keys in the engine's order
waits_before(a, b, order) ==
  IF a.p90_wait_time_minutes = b.p90_wait_time_minutes
  THEN IF order = "key_asc"
       THEN KeyRank(a.department_id) < KeyRank(b.department_id)
       ELSE KeyRank(a.department_id) > KeyRank(b.department_id)
  ELSE /\ ~IsNull(a.p90_wait_time_minutes)
       /\ (IsNull(b.p90_wait_time_minutes)
             \/ a.p90_wait_time_minutes.v > b.p90_wait_time_minutes.v)

\* gold_department_waits: GROUP BY department_id ORDER BY p90_wait_time_minutes DESC
gold_department_waits(fact, order) ==
  LET groups ==
        {[department_id |-> k,
          encounters |-> Len(GroupRows(fact, "department_id", k)),
          avg_wait_time_minutes |-> AVG(GroupRows(fact, "department_id", k), "wait_time_minutes"),
          median_wait_time_minutes |->
            quantile_cont(GroupRows(fact, "department_id", k), "wait_time_minutes", 5),
          p90_wait_time_minutes |->
            quantile_cont(GroupRows(fact, "department_id", k), "wait_time_minutes", 9)] :
           k \in {fact[i].department_id : i \in 1..Len(fact)}}
  IN [n \in 1..Cardinality(groups) |->
        CHOOSE g \in groups : Cardinality({h \in groups : waits_before(h, g, order)}) = n - 1]

\* CREATE TABLE after an INSERT-style append to a table that is already there
create_table_append(old, new) == IF old.exists THEN Table(old.rows \o new) ELSE Table(new)

\* DROP TABLE IF EXISTS t; CREATE TABLE t AS ...: the old rows are gone
create_table(old, new) == Table(new)

\* the warehouse after main() of build_gold.py ran on snapshot silver
build_tables(old, silver, order) ==
  LET dim == create_table(old.dim_department, dim_department(silver))
      dates == create_table(old.dim_date, dim_date(silver, order))
      fact == create_table(old.fact_encounter, fact_encounter(silver, dim.rows))
  IN [dim_department |-> dim,
      dim_date |-> dates,
      fact_encounter |-> fact,
      gold_daily_volume |-> create_table(old.gold_daily_volume, gold_daily_volume(fact.rows)),
      gold_department_waits |->
        create_table(old.gold_department_waits, gold_department_waits(fact.rows, order))]

\* main() of data_loader.py from the loaded table to the frame it saves
main_output(table) ==
  DropColumn(basic_cleaning(parse_datetimes(standardise_columns(table))), "admitted_raw")

\* main() of build_gold.py
BuildGold ==
  /\ builds < MaxBuilds
  /\ IF processed = NOFILE
     THEN /\ err' = [t |-> "FileNotFoundError"]
          /\ UNCHANGED <<warehouse, builds>>
     ELSE /\ warehouse' = build_tables(warehouse, processed, tieOrder)
          /\ builds' = builds + 1
          /\ err' = err
  /\ UNCHANGED <<raw, df, pc, processed, tieOrder, svcVars>>

----------------------------------------------------------------------------
(* The metrics endpoints of the service *)

Pad(n, width) ==
  LET digits == NatToStr(n)
  IN [i \in 1..(width - Len(digits)) |-> "0"] \o digits

\* Series.astype(str) on a date column
date_str(c) ==
  IF IsNull(c) THEN Str(<<"N","a","T">>)
  ELSE Str(Pad(c.y, 4) \o <<"-">> \o Pad(c.mo, 2) \o <<"-">> \o Pad(c.d, 2))

\* duckdb_query_to_records: the rows of the result as records, every column
\* whose name contains "date" rendered as text; a missing table raises
duckdb_query_to_records(result) ==
  IF ~result.exists THEN [t |-> "error", status |-> 500]
  ELSE [t |-> "records",
        rows |-> [i \in 1..Len(result.rows) |->
                    [c \in DOMAIN result.rows[i] |->
                       IF c \in {"event_date"} THEN date_str(result.rows[i][c])
                       ELSE result.rows[i][c]]]]

\* con.execute(sql): the query text selecting all of gold_department_waits or
\* of gold_daily_volume gives that table; any other text is rejected
execute(sql, wh) ==
  IF sql = SQL_department_metrics THEN wh.gold_department_waits
  ELSE IF sql = SQL_daily_volume THEN wh.gold_daily_volume
  ELSE ABSENT

\* a metrics handler: METRICS_QUERIES[name], a KeyError when the name is not
\* there, then duckdb_query_to_records
metrics_response(queries, name, wh) ==
  IF name \notin DictKeys(queries) THEN [t |-> "error", status |-> 500]
  ELSE duckdb_query_to_records(execute(DictGet(queries, name), wh))

\* GET /metrics/department
MetricsDepartment ==
  /\ svc = "serving"
  /\ request' = [endpoint |-> "/metrics/department"]
  /\ response' = metrics_response(METRICS_QUERIES, Q_department_metrics, warehouse)
  /\ <<request', response'>> # <<request, response>>
  /\ UNCHANGED <<ingestVars, goldVars, svc, loadVars, startupVars>>

\* GET /metrics/daily-volume
MetricsDailyVolume ==
  /\ svc = "serving"
  /\ request' = [endpoint |-> "/metrics/daily-volume"]
  /\ response' = metrics_response(METRICS_QUERIES, Q_daily_volume, warehouse)
  /\ <<request', response'>> # <<request, response>>
  /\ UNCHANGED <<ingestVars, goldVars, svc, loadVars, startupVars>>

----------------------------------------------------------------------------
(* Snapshots the warehouse is built from: what the cleaner writes for raw    *)
(* tables that differ in department, wait time and date                     *)

T_merged_next_day == <<"2","0","2","4","-","0","1","-","0","6"," ","0","8",":","0","0">>

DepartmentRows ==
  { [c \in RequiredSet |->
       CASE c = "Department Referral" -> d
         [] c = "Patient Waittime" -> w
         [] OTHER -> DefaultRow[c]] :
      d \in {Str(<<" ","a">>), Str(<<"b">>), NULL},
      w \in {Num(0), Num(10), NULL} }
  \cup
  { [c \in RequiredSet |->
       IF c = "Department Referral" THEN Str(S_nan) ELSE DefaultRow[c]] }
  \cup
  { [c \in RequiredSet |->
       CASE c = "Merged" -> m
         [] c = "Patient Admission Date" -> NULL
         [] OTHER -> DefaultRow[c]] :
      m \in {Str(T_merged_next_day), NULL} }

GoldTables == {[cols |-> RequiredSet, rows |-> rs] : rs \in SeqsUpTo(DepartmentRows, MaxRows)}

\* a warehouse left by an earlier build from another snapshot
StaleWarehouse ==
  build_tables(EmptyWarehouse,
               main_output([cols |-> RequiredSet,
                            rows |-> <<[c \in RequiredSet |->
                                          IF c = "Department Referral" THEN Str(<<"B">>)
                                          ELSE DefaultRow[c]]>>]),
               "key_asc")

\* the warehouse a model is trained on: ten encounters, five admitted and five
\* not, one of them referred to a second department
TrainingWarehouse ==
  build_tables(EmptyWarehouse,
               main_output([cols |-> RequiredSet,
                            rows |-> [i \in 1..10 |->
                                        [c \in RequiredSet |->
                                           CASE c = "Patient Id" -> Num(i)
                                             [] c = "Department Referral" ->
                                                  IF i = 1 THEN Str(<<"a">>) ELSE Str(<<"B">>)
                                             [] c = "Patient Admission Flag" ->
                                                  IF i % 2 = 1 THEN Str(T_Admission) ELSE Str(S_no)
                                             [] OTHER -> DefaultRow[c]]]]),
               "key_asc")

\* the pipelines main() of train_admission_model.py can dump for a warehouse
Artifacts == trained_pipelines(TrainingWarehouse)

\* the service after a start with the deployed query file and both artifacts
ServiceUp ==
  /\ svc = "serving"
  /\ sqlFile = SqlText(GoodSqlFile)
  /\ lineNo = 0
  /\ blocks = {}
  /\ current_name = NULL
  /\ current_sql_lines = <<>>
  /\ METRICS_QUERIES = load_metrics_sql(GoodSqlFile)
  /\ files = {MODEL_PATH, DB_PATH}
  /\ env = [v \in {"MODEL_URL", "DB_URL"} |-> NULL]
  /\ envReads = {}
  /\ downloads = <<>>
  /\ artifact = CHOOSE a \in Artifacts : TRUE
  /\ MODEL = artifact
  /\ request = NOREQUEST
  /\ response = NORESPONSE

GoldInit ==
  /\ ServiceUp
  /\ \/ /\ raw \in GoldTables
        /\ processed = main_output(raw)
        /\ df = processed
        /\ pc = "done"
     \/ /\ raw = NOFILE
        /\ processed = NOFILE
        /\ df = NODF
        /\ pc = "start"
  /\ err = NOERR
  /\ warehouse \in {EmptyWarehouse, StaleWarehouse}
  /\ builds = 0
  /\ tieOrder \in {"key_asc", "key_desc"}

GoldNext ==
  \/ BuildGold
  \/ MetricsDepartment
  \/ MetricsDailyVolume

SpecGold == GoldInit /\ [][GoldNext]_vars

----------------------------------------------------------------------------
(* Claims about the warehouse, checked under SpecGold *)

\* the distinct department names of the cleaned snapshot
CleanedNames ==
  {r["department"].s : r \in {x \in RowSet(processed) : IsStr(x["department"])}}

DimIds ==
  {warehouse.dim_department.rows[k].department_id.v :
     k \in 1..Len(warehouse.dim_department.rows)}

\* C4 as stated: after a build the keys of dim_department are exactly 1..N, N the
\* number of distinct non-null department names of the cleaned data.
C4_KeysCountAllNames ==
  (builds >= 1) => DimIds = 1..Cardinality(CleanedNames)

\* C4, amended: after a build dim_department has one row for each distinct
\* department name of the cleaned data other than the text "nan", its keys are
\* exactly 1..N without repeats for N such names, and a name that sorts before
\* another has the smaller key; so the keys are a function of the names alone.
C4_DenseDepartmentKeys ==
  (builds >= 1) =>
     LET dim == warehouse.dim_department.rows
         names == CleanedNames \ {S_nan}
     IN /\ Len(dim) = Cardinality(names)
        /\ DimIds = 1..Cardinality(names)
        /\ {dim[k].department_name.s : k \in 1..Len(dim)} = names
        /\ \A j, k \in 1..Len(dim) :
             StrLess(dim[j].department_name.s, dim[k].department_name.s)
               <=> dim[j].department_id.v < dim[k].department_id.v

\* a built warehouse whose snapshot holds the text "nan" next to a named department
C4_Witness ==
  /\ builds >= 1
  /\ S_nan \in CleanedNames
  /\ Len(warehouse.dim_department.rows) = 1

KeyOfRow(r) ==
  LET dim == warehouse.dim_department.rows
  IN IF \E k \in 1..Len(dim) : dim[k].department_name = r["department"]
     THEN dim[CHOOSE k \in 1..Len(dim) : dim[k].department_name = r["department"]].department_id
     ELSE NULL

ResponseIsDepartmentMetrics ==
  /\ response.t = "records"
  /\ \A i \in 1..Len(response.rows) : "department_id" \in DOMAIN response.rows[i]

DepartmentMetricsCoverAllRows ==
     LET rows == response.rows
     IN /\ {rows[i].department_id : i \in 1..Len(rows)} = {KeyOfRow(r) : r \in RowSet(processed)}
        /\ \A i, j \in 1..Len(rows) : rows[i].department_id = rows[j].department_id => i = j
        /\ SumSeq([i \in 1..Len(rows) |-> rows[i].encounters]) = Len(processed.rows)
        /\ \A i, j \in 1..Len(rows) :
             i < j =>
               \/ IsNull(rows[j].p90_wait_time_minutes)
               \/ /\ ~IsNull(rows[i].p90_wait_time_minutes)
                  /\ rows[i].p90_wait_time_minutes.v >= rows[j].p90_wait_time_minutes.v

----------------------------------------------------------------------------
(* The service from import to serving *)

T_url == <<"h","t","t","p","s",":","/","/","h","/","f">>

ServiceInit ==
  /\ raw = NOFILE /\ df = NODF /\ pc = "start" /\ err = NOERR /\ processed = NOFILE
  /\ warehouse = StaleWarehouse /\ builds = 0 /\ tieOrder = "key_asc"
  /\ svc = "import"
  /\ lineNo = 0 /\ blocks = {} /\ current_name = NULL /\ current_sql_lines = <<>>
  /\ METRICS_QUERIES = {}
  /\ envReads = {} /\ downloads = <<>> /\ MODEL = NULL
  /\ request = NOREQUEST /\ response = NORESPONSE
  /\ \/ /\ sqlFile \in {NOSQL} \cup {SqlText(l) : l \in SeqsUpTo(SqlLines, MaxLines)}
        /\ files = {MODEL_PATH, DB_PATH}
        /\ env = [v \in {"MODEL_URL", "DB_URL"} |-> NULL]
        /\ artifact = CHOOSE a \in Artifacts : TRUE
     \/ /\ sqlFile = SqlText(GoodSqlFile)
        /\ files \in SUBSET {MODEL_PATH, DB_PATH}
        /\ env \in [{"MODEL_URL", "DB_URL"} -> {NULL, Str(<<>>), Str(T_url)}]
        /\ artifact \in Artifacts

ServiceNext ==
  \/ LoadMetricsSqlOpen
  \/ LoadMetricsSqlLine
  \/ LoadMetricsSqlClose
  \/ StartupEnsureModel
  \/ StartupEnsureDb
  \/ StartupLoadModel
  \/ Health
  \/ Predict
  \/ MetricsDepartment
  \/ MetricsDailyVolume

SpecService == ServiceInit /\ [][ServiceNext]_vars

----------------------------------------------------------------------------
(* Claims about the service, checked under SpecService *)

IsMarkerLine(l) == startswith(lower(strip(l)), MARKER)
Markers(lines) == {i \in 1..Len(lines) : IsMarkerLine(lines[i])}

\* the index of the first marker after line i, or one past the last line
NextMarker(lines, i) ==
  IF \E j \in Markers(lines) : j > i
  THEN CHOOSE j \in Markers(lines) : j > i /\ \A k \in Markers(lines) : k > i => j <= k
  ELSE Len(lines) + 1

\* the identifier after the colon of marker line i
Identifier(lines, i) == strip(SubSeq(strip(lines[i]), Len(MARKER) + 1, Len(strip(lines[i]))))

\* the lines between marker i and the next marker or the end of the file
BlockLines(lines, i) == SubSeq(lines, i + 1, NextMarker(lines, i) - 1)

BlockText(lines, i) == strip(join(BlockLines(lines, i)))

Imported == svc \in {"imported", "ensure_db", "load_model", "startup_failed", "serving"}

Kept(lines, i) == Identifier(lines, i) # <<>> /\ BlockLines(lines, i) # <<>>

C8_NoMarkerFailsImport ==
  /\ (sqlFile.exists /\ Markers(sqlFile.lines) = {}) =>
        /\ svc \in {"import", "parsing", "import_failed"}
        /\ (svc = "import_failed" => err.t = "RuntimeError")
        /\ METRICS_QUERIES = {}
        /\ request = NOREQUEST
  /\ (svc = "serving" => METRICS_QUERIES # {})

\* the import failed on a file of three lines none of which is a marker
C8_Witness ==
  /\ svc = "import_failed"
  /\ sqlFile.exists
  /\ Len(sqlFile.lines) = 3
  /\ Markers(sqlFile.lines) = {}
  /\ \E i \in 1..3 : sqlFile.lines[i] = <<"-","-","n","a","m","e",":"," ","a">>
  /\ err = [t |-> "RuntimeError", what |-> "no named blocks"]

UrlSet(url) == IsStr(url) /\ url.s # <<>>

\* what one artifact check of startup does with the file at path and the URL in env_var
EnsureOutcome(path, env_var) ==
  /\ (path \in files =>
        /\ envReads' = envReads
        /\ downloads' = downloads
        /\ files' = files
        /\ svc' # "startup_failed")
  /\ (path \notin files /\ UrlSet(env[env_var]) =>
        /\ downloads' = Append(downloads, <<env[env_var].s, path>>)
        /\ files' = files \cup {path}
        /\ svc' # "startup_failed")
  /\ (path \notin files /\ ~UrlSet(env[env_var]) =>
        /\ svc' = "startup_failed"
        /\ err'.t = "RuntimeError"
        /\ downloads' = downloads
        /\ files' = files)

\* C9: startup checks the model file, then the warehouse file; a file that is
\* there is left alone and its URL is not read; a missing one is retrieved from
\* its URL to its path, and startup fails when there is no URL; the model is
\* loaded only once both checks have passed, so it stays unloaded after a failure.
C9_StartupEnsuresArtifacts ==
  [][/\ (svc = "imported" /\ svc' # svc =>
           EnsureOutcome(MODEL_PATH, "MODEL_URL") /\ "DB_URL" \notin envReads')
     /\ (svc = "ensure_db" /\ svc' # svc => EnsureOutcome(DB_PATH, "DB_URL"))
     /\ (MODEL' # MODEL => svc = "load_model" /\ {MODEL_PATH, DB_PATH} \subseteq files)
     /\ (svc' = "startup_failed" => MODEL' = NULL)]_vars

\* a serving service that retrieved its model file and found its warehouse file
C9_Witness ==
  /\ svc = "serving"
  /\ downloads = <<<<T_url, MODEL_PATH>>>>
  /\ envReads = {"MODEL_URL"}
  /\ UrlSet(env["DB_URL"])
  /\ MODEL # NULL

\* C10: a /predict request whose seven fields are present and valid is answered
\* with a probability in [0, 1] and the prediction 1 exactly when the
\* probability is at least one half, else 0, whether or not its department_id
\* was seen in training.
C10_PredictThreshold ==
  (request.endpoint = "/predict" /\ valid_request(request.body)) =>
     /\ response.t = "prediction"
     /\ response.admitted_probability \in 0..ProbScale
     /\ response.admitted_prediction \in {0, 1}
     /\ (response.admitted_prediction = 1 <=> 2 * response.admitted_probability >= ProbScale)

\* a valid request with a department_id the encoder never saw, answered with
\* probability one half and prediction 1
C10_Witness ==
  /\ request.endpoint = "/predict"
  /\ valid_request(request.body)
  /\ request.body.department_id \notin MODEL.categories["department_id"]
  /\ response.t = "prediction"
  /\ 2 * response.admitted_probability = ProbScale
  /\ response.admitted_prediction = 1

====
